---- MODULE Spec2Model ----
(***************************************************************************)
(* Model of compiler/typesystem.py: the class registry (TypeSystem.classes)*)
(* and its queries.  The registry is a Python defaultdict(lambda: None):   *)
(* reading a missing key stores the key with the value None.  Every query  *)
(* is an operator that threads the registry through its reads and returns  *)
(* [classes, status, value]; status is "ok" or the Python exception raised. *)
(***************************************************************************)
EXTENDS Integers, Sequences, FiniteSets, TLC

VARIABLES classes, pc, last

vars == <<classes, pc, last>>

----------------------------------------------------------------------------
(* Bounds *)

\* number of user classes the declaration pass may register
MaxClasses == 3

\* number of declarations (classes, attributes, methods) the declaration pass
\* may make before type checking begins
MaxDecls == 4

----------------------------------------------------------------------------
(* Names *)

NamePool == <<"A", "B", "C", "D", "E">>

UserClasses == {NamePool[i] : i \in 1..MaxClasses}

BuiltIns == {"object", "int", "bool", "str", "<None>", "<Empty>"}

ClassNames == BuiltIns \cup UserClasses

AttrNames == {"x", "y"}

MethodNames == {"__init__", "x"}

MemberNames == AttrNames \cup MethodNames

----------------------------------------------------------------------------
(* Python values *)

\* Python's None where an object is expected
None == [kind |-> "None"]

\* Python's None where a str is expected (ClassInfo.superclass, defining class)
NoneName == "None"

\* compiler/types.py (imported at line 1): value types carrying a class name;
\* Object, Int, Bool, Str, None and Empty are the types of the built-in classes
ClassValueType(n) == [kind |-> "ClassValueType", className |-> n]

ObjectType == ClassValueType("object")

IntType == ClassValueType("int")

BoolType == ClassValueType("bool")

StrType == ClassValueType("str")

NoneType == ClassValueType("<None>")

EmptyType == ClassValueType("<Empty>")

\* compiler/types.py: function types; they carry no class name
FuncType(params, ret) == [kind |-> "FuncType", parameters |-> params, returnType |-> ret]

isClassValueType(t) == t.kind = "ClassValueType"

hasClassName(t) == t.kind = "ClassValueType"

\* the signature every built-in __init__ is given in TypeSystem.__init__
InitSig == FuncType(<<ObjectType>>, NoneType)

ClassInfo(n, s) ==
  [kind |-> "ClassInfo", name |-> n, superclass |-> s,
   attrs |-> <<>>, methods |-> <<>>, orderedAttrs |-> <<>>]

WithInit(info) == [info EXCEPT !.methods = ("__init__" :> InitSig)]

\* the registry TypeSystem.__init__ builds
InitClasses ==
  [n \in BuiltIns |->
     CASE n = "object"  -> WithInit(ClassInfo("object", NoneName))
       [] n = "int"     -> WithInit(ClassInfo("int", "object"))
       [] n = "bool"    -> WithInit(ClassInfo("bool", "object"))
       [] n = "str"     -> WithInit(ClassInfo("str", "object"))
       [] n = "<None>"  -> ClassInfo("<None>", "object")
       [] n = "<Empty>" -> ClassInfo("<Empty>", "object")]

----------------------------------------------------------------------------
(* defaultdict access *)

\* self.classes[k]: a missing key is stored with the default value None
Touch(cls, k) == IF k \in DOMAIN cls THEN cls ELSE cls @@ (k :> None)

Ok(cls, v) == [classes |-> cls, status |-> "ok", value |-> v]

AttributeError(cls) == [classes |-> cls, status |-> "AttributeError", value |-> None]

----------------------------------------------------------------------------
(* Resolution queries *)

RECURSIVE getMethodHelper(_, _, _)

\* getMethodHelper with a plausible fault: the lookup does not walk up to the
\* superclass
getMethodHelperNoWalk(cls, className, methodName) ==
  LET c1 == Touch(cls, className) IN
  IF c1[className].kind = "None" THEN AttributeError(c1)
  ELSE IF methodName \notin DOMAIN c1[className].methods
       THEN Ok(c1, <<None, NoneName>>)
       ELSE Ok(c1, <<c1[className].methods[methodName], className>>)

getMethodHelper(cls, className, methodName) ==
  LET c1 == Touch(cls, className) IN
  IF c1[className].kind = "None" THEN AttributeError(c1)
  ELSE IF methodName \notin DOMAIN c1[className].methods
       THEN IF c1[className].superclass = NoneName
            THEN Ok(c1, <<None, NoneName>>)
            ELSE getMethodHelper(c1, c1[className].superclass, methodName)
       ELSE Ok(c1, <<c1[className].methods[methodName], className>>)

getMethod(cls, className, methodName) ==
  LET r == getMethodHelper(cls, className, methodName) IN
  IF r.status = "ok" THEN Ok(r.classes, r.value[1]) ELSE r

getMethodDefClass(cls, className, methodName) ==
  LET r == getMethodHelper(cls, className, methodName) IN
  IF r.status = "ok" THEN Ok(r.classes, r.value[2]) ELSE r

RECURSIVE getAttrHelper(_, _, _)
getAttrHelper(cls, className, attrName) ==
  LET c1 == Touch(cls, className) IN
  IF c1[className].kind = "None" THEN AttributeError(c1)
  ELSE IF attrName \notin DOMAIN c1[className].attrs
       THEN IF c1[className].superclass = NoneName
            THEN Ok(c1, <<None, NoneName>>)
            ELSE getAttrHelper(c1, c1[className].superclass, attrName)
       ELSE Ok(c1, c1[className].attrs[attrName])

getAttr(cls, className, attrName) ==
  LET r == getAttrHelper(cls, className, attrName) IN
  IF r.status = "ok" THEN Ok(r.classes, r.value[1]) ELSE r

getAttrInit(cls, className, attrName) ==
  LET r == getAttrHelper(cls, className, attrName) IN
  IF r.status = "ok" THEN Ok(r.classes, r.value[2]) ELSE r

RECURSIVE getAttrOrMethod(_, _, _)

\* getAttrOrMethod with a plausible fault: the whole chain is searched for a
\* method before any attribute
getAttrOrMethodMethodsFirst(cls, className, name) ==
  LET m == getMethodHelper(cls, className, name) IN
  IF m.status # "ok" THEN m
  ELSE IF m.value[2] # NoneName THEN Ok(m.classes, m.value[1])
  ELSE getAttr(m.classes, className, name)

getAttrOrMethod(cls, className, name) ==
  LET c1 == Touch(cls, className) IN
  IF c1[className].kind = "None" THEN AttributeError(c1)
  ELSE IF name \in DOMAIN c1[className].methods
       THEN Ok(c1, c1[className].methods[name])
  ELSE IF name \in DOMAIN c1[className].attrs
       THEN Ok(c1, c1[className].attrs[name][1])
  ELSE IF c1[className].superclass = NoneName
       THEN Ok(c1, None)
       ELSE getAttrOrMethod(c1, c1[className].superclass, name)

classExists(cls, className) == Ok(cls, className \in DOMAIN cls)

----------------------------------------------------------------------------
(* Subtyping and assignability *)

RECURSIVE isSubClassLoop(_, _, _)
isSubClassLoop(cls, curr, b) ==
  IF curr = NoneName THEN Ok(cls, FALSE)
  ELSE IF curr = b THEN Ok(cls, TRUE)
  ELSE LET c1 == Touch(cls, curr) IN
       IF c1[curr].kind = "None" THEN AttributeError(c1)
       ELSE isSubClassLoop(c1, c1[curr].superclass, b)

\* isSubClass with a plausible fault: the walk starts at the superclass of a,
\* so a class is no subclass of itself
isSubClassStrict(cls, a, b) ==
  LET c1 == Touch(cls, a) IN
  IF c1[a].kind = "None" THEN AttributeError(c1)
  ELSE isSubClassLoop(c1, c1[a].superclass, b)

isSubClass(cls, a, b) == isSubClassLoop(cls, a, b)

isSubtype(cls, a, b) ==
  IF b = ObjectType THEN Ok(cls, TRUE)
  ELSE IF isClassValueType(a) /\ isClassValueType(b)
       THEN isSubClass(cls, a.className, b.className)
       ELSE Ok(cls, a = b)

\* canAssign with a plausible fault: str is missing from the list of types
\* None cannot be assigned to
canAssignNoneToStr(cls, a, b) ==
  LET r == isSubtype(cls, a, b) IN
  IF r.status # "ok" THEN r
  ELSE IF r.value THEN Ok(r.classes, TRUE)
  ELSE IF a = NoneType /\ b \notin {IntType, BoolType}
       THEN Ok(r.classes, TRUE)
       ELSE Ok(r.classes, FALSE)

canAssign(cls, a, b) ==
  LET r == isSubtype(cls, a, b) IN
  IF r.status # "ok" THEN r
  ELSE IF r.value THEN Ok(r.classes, TRUE)
  ELSE IF a = NoneType /\ b \notin {IntType, StrType, BoolType}
       THEN Ok(r.classes, TRUE)
       ELSE Ok(r.classes, FALSE)

----------------------------------------------------------------------------
(* join *)

Reverse(s) == [i \in 1..Len(s) |-> s[Len(s) + 1 - i]]

Min(m, n) == IF m < n THEN m ELSE n

\* the while loops of join: the superclass names from n up to the root
RECURSIVE Ancestors(_, _)
Ancestors(cls, n) ==
  LET c1 == Touch(cls, n) IN
  IF c1[n].kind = "None" THEN AttributeError(c1)
  ELSE IF c1[n].superclass = NoneName THEN Ok(c1, <<>>)
  ELSE LET r == Ancestors(c1, c1[n].superclass) IN
       IF r.status # "ok" THEN r
       ELSE Ok(r.classes, <<c1[n].superclass>> \o r.value)

\* the for loop of join over the reversed lists; Python's index i - 1 with
\* i = 0 is the last element
LowestCommon(cls, aAncestors, bAncestors) ==
  LET n == Min(Len(aAncestors), Len(bAncestors))
      diff == {i \in 1..n : aAncestors[i] # bAncestors[i]}
  IN IF diff = {} THEN Ok(cls, ObjectType)
     ELSE LET i == CHOOSE k \in diff : \A j \in diff : k <= j
              prev == IF i = 1 THEN Len(aAncestors) ELSE i - 1
              c1 == Touch(cls, aAncestors[prev])
          IN Ok(c1, c1[aAncestors[prev]])

join(cls, a, b) ==
  LET r1 == canAssign(cls, a, b) IN
  IF r1.status # "ok" THEN r1
  ELSE IF r1.value THEN Ok(r1.classes, b)
  ELSE LET r2 == canAssign(r1.classes, b, a) IN
  IF r2.status # "ok" THEN r2
  ELSE IF r2.value THEN Ok(r2.classes, a)
  ELSE IF ~hasClassName(a) \/ ~hasClassName(b) THEN AttributeError(r2.classes)
  ELSE LET ra == Ancestors(r2.classes, a.className) IN
  IF ra.status # "ok" THEN ra
  ELSE LET rb == Ancestors(ra.classes, b.className) IN
  IF rb.status # "ok" THEN rb
  ELSE LowestCommon(rb.classes, Reverse(ra.value \o rb.value), Reverse(<<>>))

----------------------------------------------------------------------------
(* Bulk enumeration *)

\* a dict name -> (signature, defining class); own entries replace inherited
RECURSIVE getAllMethods(_, _)

\* getAllMethods with a plausible fault: an inherited entry is kept when the
\* class declares the same name
getAllMethodsInheritedWins(cls, className) ==
  LET c1 == Touch(cls, className) IN
  IF c1[className].kind = "None" THEN AttributeError(c1)
  ELSE LET own == [m \in DOMAIN c1[className].methods |->
                     <<c1[className].methods[m], className>>]
       IN IF c1[className].superclass = NoneName THEN Ok(c1, own)
          ELSE LET r == getAllMethods(c1, c1[className].superclass) IN
               IF r.status # "ok" THEN r
               ELSE Ok(r.classes, r.value @@ own)

getAllMethods(cls, className) ==
  LET c1 == Touch(cls, className) IN
  IF c1[className].kind = "None" THEN AttributeError(c1)
  ELSE LET own == [m \in DOMAIN c1[className].methods |->
                     <<c1[className].methods[m], className>>]
       IN IF c1[className].superclass = NoneName THEN Ok(c1, own)
          ELSE LET r == getAllMethods(c1, c1[className].superclass) IN
               IF r.status # "ok" THEN r
               ELSE Ok(r.classes, own @@ r.value)

\* the list of (name, type, init value) triples; the recursive call's result is
\* bound to the loop variable attr and overwritten by the loop
RECURSIVE getOrderedAttrs(_, _)
getOrderedAttrs(cls, className) ==
  LET c1 == Touch(cls, className) IN
  IF c1[className].kind = "None" THEN AttributeError(c1)
  ELSE LET info == c1[className]
           own == [i \in 1..Len(info.orderedAttrs) |->
                     <<info.orderedAttrs[i],
                       info.attrs[info.orderedAttrs[i]][1],
                       info.attrs[info.orderedAttrs[i]][2]>>]
       IN IF info.superclass = NoneName THEN Ok(c1, own)
          ELSE LET r == getOrderedAttrs(c1, info.superclass) IN
               IF r.status # "ok" THEN r
               ELSE Ok(r.classes, own)

----------------------------------------------------------------------------
(* Inputs *)

\* signatures other than InitSig that a query may pass as a value type
OtherSig == FuncType(<<ObjectType>>, IntType)

FuncTypes == {InitSig, OtherSig}

ValueTypes == {ClassValueType(n) : n \in ClassNames} \cup FuncTypes

\* declared type and initial value literal of an attribute
AttrEntries == {<<IntType, "0">>, <<BoolType, "False">>}

\* a method's first parameter is the declaring class
MethodSig(c) == FuncType(<<ClassValueType(c)>>, NoneType)

Registered(cls) == {n \in DOMAIN cls : cls[n].kind = "ClassInfo"}

DeclCount(cls) ==
  LET RECURSIVE Sum(_)
      Sum(S) == IF S = {} THEN 0
                ELSE LET n == CHOOSE x \in S : TRUE
                     IN Cardinality(DOMAIN cls[n].attrs)
                        + Cardinality(DOMAIN cls[n].methods) + Sum(S \ {n})
  IN Cardinality(Registered(cls) \ BuiltIns) + Sum(Registered(cls) \ BuiltIns)

\* the declaration pass meets the classes of a program in source order
NextName(cls) == NamePool[Cardinality(Registered(cls) \ BuiltIns) + 1]

NoCall == [op |-> "none"]

----------------------------------------------------------------------------
(* State machine *)

Init ==
  /\ classes = InitClasses
  /\ pc = "declare"
  /\ last = NoCall

\* the declaration pass registers a class under object or an earlier user
\* class (the language lets no class extend int, bool, str or the markers)
DeclareClass(n, s) ==
  /\ pc = "declare"
  /\ n \notin DOMAIN classes
  /\ n = NextName(classes)
  /\ DeclCount(classes) < MaxDecls
  /\ s \in Registered(classes) \ (BuiltIns \ {"object"})
  /\ classes' = classes @@ (n :> ClassInfo(n, s))
  /\ UNCHANGED <<pc, last>>

\* the declaration pass adds an attribute: the table entry and its position
DeclareAttr(c, a, e) ==
  /\ pc = "declare"
  /\ c \in Registered(classes) \ BuiltIns
  /\ a \notin DOMAIN classes[c].attrs
  /\ DeclCount(classes) < MaxDecls
  /\ classes' = [classes EXCEPT ![c].attrs = (a :> e) @@ @,
                                ![c].orderedAttrs = Append(@, a)]
  /\ UNCHANGED <<pc, last>>

DeclareMethod(c, m) ==
  /\ pc = "declare"
  /\ c \in Registered(classes) \ BuiltIns
  /\ m \notin DOMAIN classes[c].methods
  /\ DeclCount(classes) < MaxDecls
  /\ classes' = [classes EXCEPT ![c].methods = (m :> MethodSig(c)) @@ @]
  /\ UNCHANGED <<pc, last>>

BeginTypeCheck ==
  /\ pc = "declare"
  /\ pc' = "idle"
  /\ UNCHANGED <<classes, last>>

\* what the caller sees: the returned object, tagged with its Python type,
\* or the exception raised
Outcome(shape, r) ==
  IF r.status # "ok" THEN [raised |-> r.status]
  ELSE CASE shape = "bool"  -> [bool |-> r.value]
         [] shape = "str"   -> [str |-> r.value]
         [] shape = "pair"  -> [pair |-> r.value]
         [] shape = "type"  -> [type |-> r.value]
         [] shape = "dict"  -> [dict |-> r.value]
         [] shape = "list"  -> [list |-> r.value]

\* a query call: the registry after the call and the result or exception;
\* names are the str arguments, types the value type arguments
Call(op, names, types, shape, r) ==
  /\ pc' = "called"
  /\ classes' = r.classes
  /\ last' = [op |-> op, names |-> names, types |-> types,
              status |-> r.status, value |-> Outcome(shape, r)]

Return ==
  /\ pc = "called"
  /\ pc' = "idle"
  /\ last' = NoCall
  /\ UNCHANGED classes

QGetMethodHelper(c, m) ==
  /\ pc = "idle"
  /\ Call("getMethodHelper", <<c, m>>, <<>>, "pair", getMethodHelper(classes, c, m))

QGetMethod(c, m) ==
  /\ pc = "idle"
  /\ Call("getMethod", <<c, m>>, <<>>, "type", getMethod(classes, c, m))

QGetMethodDefClass(c, m) ==
  /\ pc = "idle"
  /\ Call("getMethodDefClass", <<c, m>>, <<>>, "str", getMethodDefClass(classes, c, m))

QGetAttrHelper(c, m) ==
  /\ pc = "idle"
  /\ Call("getAttrHelper", <<c, m>>, <<>>, "pair", getAttrHelper(classes, c, m))

QGetAttr(c, m) ==
  /\ pc = "idle"
  /\ Call("getAttr", <<c, m>>, <<>>, "type", getAttr(classes, c, m))

QGetAttrInit(c, m) ==
  /\ pc = "idle"
  /\ Call("getAttrInit", <<c, m>>, <<>>, "str", getAttrInit(classes, c, m))

QGetAttrOrMethod(c, m) ==
  /\ pc = "idle"
  /\ Call("getAttrOrMethod", <<c, m>>, <<>>, "type", getAttrOrMethod(classes, c, m))

QClassExists(c) ==
  /\ pc = "idle"
  /\ Call("classExists", <<c>>, <<>>, "bool", classExists(classes, c))

QIsSubClass(a, b) ==
  /\ pc = "idle"
  /\ Call("isSubClass", <<a, b>>, <<>>, "bool", isSubClass(classes, a, b))

QIsSubtype(a, b) ==
  /\ pc = "idle"
  /\ Call("isSubtype", <<>>, <<a, b>>, "bool", isSubtype(classes, a, b))

QCanAssign(a, b) ==
  /\ pc = "idle"
  /\ Call("canAssign", <<>>, <<a, b>>, "bool", canAssign(classes, a, b))

QJoin(a, b) ==
  /\ pc = "idle"
  /\ Call("join", <<>>, <<a, b>>, "type", join(classes, a, b))

QGetAllMethods(c) ==
  /\ pc = "idle"
  /\ Call("getAllMethods", <<c>>, <<>>, "dict", getAllMethods(classes, c))

QGetOrderedAttrs(c) ==
  /\ pc = "idle"
  /\ Call("getOrderedAttrs", <<c>>, <<>>, "list", getOrderedAttrs(classes, c))

DeclareClasses ==
  \E n \in UserClasses, s \in ClassNames : DeclareClass(n, s)

DeclareMembers ==
  \/ \E c \in UserClasses, a \in AttrNames, e \in AttrEntries : DeclareAttr(c, a, e)
  \/ \E c \in UserClasses, m \in MethodNames : DeclareMethod(c, m)

ResolutionQueries ==
  \/ \E c \in ClassNames, m \in MemberNames : QGetMethodHelper(c, m)
  \/ \E c \in ClassNames, m \in MemberNames : QGetMethod(c, m)
  \/ \E c \in ClassNames, m \in MemberNames : QGetMethodDefClass(c, m)
  \/ \E c \in ClassNames, m \in MemberNames : QGetAttrHelper(c, m)
  \/ \E c \in ClassNames, m \in MemberNames : QGetAttr(c, m)
  \/ \E c \in ClassNames, m \in MemberNames : QGetAttrInit(c, m)
  \/ \E c \in ClassNames, m \in MemberNames : QGetAttrOrMethod(c, m)
  \/ \E c \in ClassNames : QClassExists(c)
  \/ \E c \in ClassNames : QGetAllMethods(c)
  \/ \E c \in ClassNames : QGetOrderedAttrs(c)

SubtypingQueries ==
  \/ \E c \in ClassNames : QClassExists(c)
  \/ \E a \in ClassNames, b \in ClassNames : QIsSubClass(a, b)
  \/ \E a \in ValueTypes, b \in ValueTypes : QIsSubtype(a, b)
  \/ \E a \in ValueTypes, b \in ValueTypes : QCanAssign(a, b)
  \/ \E a \in ValueTypes, b \in ValueTypes : QJoin(a, b)

\* declaration pass, then member resolution and bulk enumeration
ResolutionNext ==
  \/ DeclareClasses
  \/ DeclareMembers
  \/ BeginTypeCheck
  \/ ResolutionQueries
  \/ Return

ResolutionSpec == Init /\ [][ResolutionNext]_vars

\* class declarations, then subtyping, assignability and join; these never
\* read an attribute or method table
SubtypingNext ==
  \/ DeclareClasses
  \/ BeginTypeCheck
  \/ SubtypingQueries
  \/ Return

SubtypingSpec == Init /\ [][SubtypingNext]_vars

Next ==
  \/ DeclareClasses
  \/ DeclareMembers
  \/ BeginTypeCheck
  \/ ResolutionQueries
  \/ SubtypingQueries
  \/ Return

Spec == Init /\ [][Next]_vars

----------------------------------------------------------------------------
(* Reference definitions the properties are stated with: the superclass     *)
(* chain of a registered class, read off the registry directly.             *)

Called(op) == pc = "called" /\ last.op = op

\* the arguments of the call
ArgClass == last.names[1]

ArgName == last.names[2]

\* isSubClass(a, b)
ArgSub == last.names[1]

ArgSuper == last.names[2]

ArgA == last.types[1]

ArgB == last.types[2]

RECURSIVE Chain(_)
Chain(c) ==
  IF classes[c].superclass = NoneName THEN <<c>>
  ELSE <<c>> \o Chain(classes[c].superclass)

ChainSet(c) == {Chain(c)[i] : i \in 1..Len(Chain(c))}

Declares(c, n, table) ==
  CASE table = "methods" -> n \in DOMAIN classes[c].methods
    [] table = "attrs"   -> n \in DOMAIN classes[c].attrs
    [] table = "either"  -> n \in DOMAIN classes[c].methods \/ n \in DOMAIN classes[c].attrs

\* the first class on the chain of c that declares n, or NoneName
FirstDeclaring(c, n, table) ==
  LET ch == Chain(c)
      hits == {i \in 1..Len(ch) : Declares(ch[i], n, table)}
  IN IF hits = {} THEN NoneName
     ELSE ch[CHOOSE i \in hits : \A j \in hits : i <= j]

\* the deepest class on both chains
LowestCommonAncestor(x, y) ==
  LET ch == Chain(x)
      hits == {i \in 1..Len(ch) : ch[i] \in ChainSet(y)}
  IN ch[CHOOSE i \in hits : \A j \in hits : i <= j]

\* attribute names in layout order: inherited slots first, then own new names
RECURSIVE LayoutOrder(_)
LayoutOrder(c) ==
  IF classes[c].superclass = NoneName THEN classes[c].orderedAttrs
  ELSE LET inherited == LayoutOrder(classes[c].superclass)
           seen == {inherited[i] : i \in 1..Len(inherited)}
       IN inherited \o SelectSeq(classes[c].orderedAttrs, LAMBDA a : a \notin seen)

IsUserRef(t) == isClassValueType(t) /\ t.className \notin BuiltIns

\* the class names a value type refers to are all registered
Known(t) == isClassValueType(t) => t.className \in Registered(classes)

----------------------------------------------------------------------------
(* Properties *)

\* C1: for two registered classes x, y, neither a subclass of the other,
\* join(ClassRef(x), ClassRef(y)) returns ClassRef(z), z their lowest common
\* ancestor, as a class-reference type.  (The <None> marker is left out: it
\* anchors the None value type, whose assignability is a separate rule.)
JoinIsLowestCommonAncestor ==
  (/\ Called("join")
   /\ isClassValueType(ArgA) /\ isClassValueType(ArgB)
   /\ ArgA.className \in Registered(classes) \ {"<None>"}
   /\ ArgB.className \in Registered(classes) \ {"<None>"}
   /\ ArgA.className \notin ChainSet(ArgB.className)
   /\ ArgB.className \notin ChainSet(ArgA.className))
  => /\ last.status = "ok"
     /\ last.value.type = ClassValueType(LowestCommonAncestor(ArgA.className, ArgB.className))

\* C2: getOrderedAttrs(c) lists the inherited attributes first, root downward,
\* then c's own in declaration order, each name once.
OrderedAttrsInheritedFirst ==
  (Called("getOrderedAttrs") /\ ArgClass \in Registered(classes))
  => /\ last.status = "ok"
     /\ [i \in 1..Len(last.value.list) |-> last.value.list[i][1]] = LayoutOrder(ArgClass)

\* C3: no query changes the registry.
QueriesLeaveRegistryUnchanged ==
  [][(pc = "idle" /\ pc' = "called") => classes' = classes]_vars

\* C4: getMethodHelper and getAttrHelper on a registered class return the entry
\* of the first class on the chain that declares the name (getMethodHelper
\* with that class as the defining class), and the not-found pair exactly when
\* no class on the chain declares it.
ResolveFindsFirstDeclaring ==
  /\ (Called("getMethodHelper") /\ ArgClass \in Registered(classes))
     => LET d == FirstDeclaring(ArgClass, ArgName, "methods") IN
        /\ last.status = "ok"
        /\ (d = NoneName) <=> (last.value.pair = <<None, NoneName>>)
        /\ d # NoneName => last.value.pair = <<classes[d].methods[ArgName], d>>
        /\ (ArgName = "__init__" /\ \A u \in ChainSet(ArgClass) \ {"object"} :
                                       "__init__" \notin DOMAIN classes[u].methods)
           => last.value.pair = <<InitSig, "object">>
  /\ (Called("getAttrHelper") /\ ArgClass \in Registered(classes))
     => LET d == FirstDeclaring(ArgClass, ArgName, "attrs") IN
        /\ last.status = "ok"
        /\ (d = NoneName) <=> (last.value.pair = <<None, NoneName>>)
        /\ d # NoneName => last.value.pair = classes[d].attrs[ArgName]
        /\ ArgClass = "object" => last.value.pair = <<None, NoneName>>

\* C4 witness: a lookup from B is answered by its superclass A, which shadows
\* the declaration of object.
ResolveFindsFirstDeclaringWitness ==
  /\ Called("getMethodHelper")
  /\ ArgClass = "B" /\ ArgName = "__init__"
  /\ last.status = "ok"
  /\ "B" \in Registered(classes) /\ classes["B"].superclass = "A"
  /\ last.value.pair = <<MethodSig("A"), "A">>

\* C5: on registered classes isSubClass(a, b) is true iff b is on the chain of
\* a; it is reflexive, every class is a subclass of object, and it is
\* transitive.
IsSubClassIsChainMembership ==
  /\ (Called("isSubClass") /\ ArgSub \in Registered(classes)
                           /\ ArgSuper \in Registered(classes))
     => /\ last.status = "ok"
        /\ last.value.bool = (ArgSuper \in ChainSet(ArgSub))
        /\ ArgSub = ArgSuper => last.value.bool = TRUE
        /\ ArgSuper = "object" => last.value.bool = TRUE
  /\ \A a \in Registered(classes), b \in Registered(classes), c \in Registered(classes) :
       (isSubClass(classes, a, b).value = TRUE /\ isSubClass(classes, b, c).value = TRUE)
       => isSubClass(classes, a, c).value = TRUE

\* C5 witness: a true answer that takes two superclass steps, neither to object.
IsSubClassIsChainMembershipWitness ==
  /\ Called("isSubClass")
  /\ ArgSub = "C" /\ ArgSuper = "A"
  /\ "C" \in Registered(classes) /\ classes["C"].superclass = "B"
  /\ last.status = "ok" /\ last.value.bool = TRUE

\* C6: canAssign(a, b) is true exactly when isSubtype(a, b) is true or a is
\* the None type and b is none of Int, Bool, Str.
CanAssignIsSubtypeOrNone ==
  Called("canAssign")
  => LET s == isSubtype(classes, ArgA, ArgB) IN
     /\ (last.status = "ok") <=> (s.status = "ok")
     /\ (last.status = "ok" /\ last.value.bool = TRUE)
        <=> \/ s.status = "ok" /\ s.value = TRUE
            \/ ArgA = NoneType /\ ArgB \notin {IntType, BoolType, StrType}
     /\ ArgA = NoneType
        => /\ last.status = "ok"
           /\ last.value.bool = (ArgB \notin {IntType, BoolType, StrType})

\* C6 witness: None is assigned to a user class, where isSubtype is false.
CanAssignIsSubtypeOrNoneWitness ==
  /\ Called("canAssign")
  /\ ArgA = NoneType /\ ArgB = ClassValueType("A")
  /\ "A" \in Registered(classes)
  /\ isSubtype(classes, ArgA, ArgB).value = FALSE
  /\ last.status = "ok" /\ last.value.bool = TRUE

\* the call named a class that the registry holds no record of
NamesAbsentClass ==
  \/ /\ last.op \in {"getMethodHelper", "getMethod", "getMethodDefClass",
                     "getAttrHelper", "getAttr", "getAttrInit", "getAttrOrMethod",
                     "getAllMethods", "getOrderedAttrs"}
     /\ ArgClass \notin Registered(classes)
  \/ /\ last.op = "isSubClass"
     /\ (ArgSub \notin Registered(classes) \/ ArgSuper \notin Registered(classes))
  \/ /\ last.op \in {"isSubtype", "canAssign", "join"}
     /\ (~Known(ArgA) \/ ~Known(ArgB))

\* C7: a query given a class name absent from the registry ends in an error
\* and never returns an ordinary result.
AbsentClassIsFatal ==
  (pc = "called" /\ NamesAbsentClass) => last.status # "ok"

\* C8: join(a, b) is b when canAssign(a, b), else a when canAssign(b, a), else
\* Object, without an error, when an operand is not a user class reference
\* (stated for operands whose class names are registered).
JoinFallsBackToObject ==
  (Called("join") /\ Known(ArgA) /\ Known(ArgB))
  => LET ab == canAssign(classes, ArgA, ArgB)
         ba == canAssign(classes, ArgB, ArgA)
     IN IF ab.value = TRUE THEN last.status = "ok" /\ last.value.type = ArgB
        ELSE IF ba.value = TRUE THEN last.status = "ok" /\ last.value.type = ArgA
        ELSE (~IsUserRef(ArgA) \/ ~IsUserRef(ArgB))
             => (last.status = "ok" /\ last.value.type = ObjectType)

\* C9: getAllMethods(c) agrees with getMethodHelper on every name: m is a key
\* iff getMethodHelper(c, m) finds it, and the entries are equal.
AllMethodsAgreesWithResolve ==
  (Called("getAllMethods") /\ ArgClass \in Registered(classes))
  => /\ last.status = "ok"
     /\ \A m \in MemberNames :
          LET r == getMethodHelper(classes, ArgClass, m) IN
          /\ (m \in DOMAIN last.value.dict) <=> (r.value[2] # NoneName)
          /\ m \in DOMAIN last.value.dict => last.value.dict[m] = r.value

\* C9 witness: B overrides a method of its superclass A and the flattened
\* table holds B's entry.
AllMethodsAgreesWithResolveWitness ==
  /\ Called("getAllMethods")
  /\ ArgClass = "B" /\ "B" \in Registered(classes)
  /\ classes["B"].superclass = "A"
  /\ "x" \in DOMAIN classes["A"].methods
  /\ "x" \in DOMAIN classes["B"].methods
  /\ last.status = "ok"
  /\ last.value.dict["x"] = <<MethodSig("B"), "B">>
  /\ last.value.dict["__init__"] = <<InitSig, "object">>

\* C10: getAttrOrMethod(c, n) returns the type given by the first class on the
\* chain that declares n as a method or an attribute, the method signature
\* when that class declares both, and None exactly when no class does.
MemberFindsFirstDeclaring ==
  (Called("getAttrOrMethod") /\ ArgClass \in Registered(classes))
  => LET d == FirstDeclaring(ArgClass, ArgName, "either") IN
     /\ last.status = "ok"
     /\ (d = NoneName) <=> (last.value.type = None)
     /\ (d # NoneName /\ ArgName \in DOMAIN classes[d].methods)
        => last.value.type = classes[d].methods[ArgName]
     /\ (d # NoneName /\ ArgName \notin DOMAIN classes[d].methods)
        => last.value.type = classes[d].attrs[ArgName][1]

\* C10 witness: an attribute declared in B hides the method of the same name
\* declared in its superclass A.
MemberFindsFirstDeclaringWitness ==
  /\ Called("getAttrOrMethod")
  /\ ArgClass = "B" /\ ArgName = "x" /\ "B" \in Registered(classes)
  /\ classes["B"].superclass = "A"
  /\ "x" \in DOMAIN classes["A"].methods
  /\ "x" \in DOMAIN classes["B"].attrs
  /\ "x" \notin DOMAIN classes["B"].methods
  /\ last.status = "ok"
  /\ last.value.type = classes["B"].attrs["x"][1]

====
